---- MODULE Spec2Model ----
\* LinkedIn roaster: the scrape-and-roast handler (src/app/api/roast/route.ts and
\* its earlier build src/unnamed/part_001) and the session bootstrapper
\* (src/unnamed/part_000, saveState.ts).
\*
\* Strings that the code searches or cuts (profile, page URL) are sequences of
\* one-character strings, so that includes / startsWith / substring are
\* computed as JavaScript computes them.
EXTENDS Integers, Sequences, FiniteSets, TLC

\* ---------------------------------------------------------------- bounds
\* POST requests served over a run
MaxRequests == 3
\* browsers the instance can start before launch fails
MaxBrowsers == 2
\* invocations that can be in flight together
MaxInflight == 2
\* POST requests served over a run in which invocations interleave
MaxInterleaved == 2

\* ------------------------------------------------------- program constants
\* profileData.substring(0, 10000)
SubstringLimit == 10000

\* ------------------------------------------------------------------ strings
\* A JavaScript string is the record [chars, pad]: the characters chars
\* followed by pad copies of PadChar. The tail keeps a string longer than
\* SubstringLimit small; the operations below are exact on this form.
PadChar == "x"

Str(chars) == [chars |-> chars, pad |-> 0]

Min(a, b) == IF a < b THEN a ELSE b

\* String.prototype.length
Length(s) == Len(s.chars) + s.pad

\* the first n characters of s, n <= Length(s), as a sequence
Expand(s, n) ==
  [i \in 1..n |-> IF i <= Len(s.chars) THEN s.chars[i] ELSE PadChar]

\* String.prototype.includes: an occurrence of needle either starts within
\* chars or lies in the tail, and then one starts at the head of the tail
Includes(s, needle) ==
  LET n   == Length(needle)
      nd  == Expand(needle, n)
      hay == Expand(s, Len(s.chars) + Min(s.pad, n))
  IN \E i \in 0..(Len(hay) - n) : SubSeq(hay, i + 1, i + n) = nd

\* String.prototype.startsWith
StartsWith(s, prefix) ==
  LET n == Length(prefix)
  IN /\ Length(s) >= n
     /\ Expand(s, n) = Expand(prefix, n)

\* String.prototype.substring(0, end)
Substring(s, end) ==
  IF end <= Len(s.chars)
    THEN [chars |-> SubSeq(s.chars, 1, end), pad |-> 0]
    ELSE [chars |-> s.chars, pad |-> Min(s.pad, end - Len(s.chars))]

\* a + b for a string a without tail
Concat(a, b) == [chars |-> a.chars \o b.chars, pad |-> b.pad]

\* "linkedin.com"
NEEDLE_LINKEDIN ==
  Str(<<"l","i","n","k","e","d","i","n",".","c","o","m">>)
\* "feed"
NEEDLE_FEED ==
  Str(<<"f","e","e","d">>)
\* "login"
NEEDLE_LOGIN ==
  Str(<<"l","o","g","i","n">>)
\* "http"
NEEDLE_HTTP ==
  Str(<<"h","t","t","p">>)
\* "https://"
HTTPS_PREFIX ==
  Str(<<"h","t","t","p","s",":","/","/">>)
\* "https://www.linkedin.com/feed/"
FEED_URL ==
  Str(<<"h","t","t","p","s",":","/","/","w","w","w",".","l","i","n","k","e","d","i","n",".","c","o","m","/","f","e","e","d","/">>)
\* "https://www.linkedin.com/login"
LOGIN_URL ==
  Str(<<"h","t","t","p","s",":","/","/","w","w","w",".","l","i","n","k","e","d","i","n",".","c","o","m","/","l","o","g","i","n">>)
\* "https://www.linkedin.com/uas/login?session_redirect=%2Ffeed%2F"
\* (the login page a request without a session is redirected to; it carries
\* the destination in its query string)
LOGIN_REDIRECT_URL ==
  Str(<<"h","t","t","p","s",":","/","/","w","w","w",".","l","i","n","k","e","d","i","n",".","c","o","m","/","u","a","s","/","l","o","g","i","n","?","s","e","s","s","i","o","n","_","r","e","d","i","r","e","c","t","=","%","2","F","f","e","e","d","%","2","F">>)
\* "https://www.linkedin.com/checkpoint/challenge"
CHECKPOINT_URL ==
  Str(<<"h","t","t","p","s",":","/","/","w","w","w",".","l","i","n","k","e","d","i","n",".","c","o","m","/","c","h","e","c","k","p","o","i","n","t","/","c","h","a","l","l","e","n","g","e">>)
\* "about:blank": the URL of a page that has not navigated
BLANK_URL ==
  Str(<<"a","b","o","u","t",":","b","l","a","n","k">>)

\* ------------------------------------------------------------------- inputs
\* "linkedin.com/in/a"
ProfileBare ==
  Str(<<"l","i","n","k","e","d","i","n",".","c","o","m","/","i","n","/","a">>)
\* "https://www.linkedin.com/in/a"
ProfileHttp ==
  Str(<<"h","t","t","p","s",":","/","/","w","w","w",".","l","i","n","k","e","d","i","n",".","c","o","m","/","i","n","/","a">>)
\* "hi": pasted profile text
ProfileText ==
  Str(<<"h","i">>)
\* pasted profile text, "hi" followed by SubstringLimit - 1 times PadChar: one
\* character longer than the substring limit
ProfileLong ==
  [chars |-> <<"h","i">>, pad |-> SubstringLimit - 1]

Profiles == {ProfileBare, ProfileHttp, ProfileText, ProfileLong}

\* what the scrape yields: the stringified /graphql payload (route.ts) or the
\* cleaned body text (part_001)
ScrapedData == {Str(<<"{","}">>), [chars |-> <<"b","i","o">>, pad |-> SubstringLimit]}

\* contents of linkedin_state.json: absent, not JSON, the JSON text "null",
\* a storage state whose session is live, one whose session has expired
StateFiles == {"missing", "garbage", "null", "live", "expired"}

Builds == {"route.ts", "part_001"}

Requests == 1..MaxInflight
BrowserIds == 1..MaxBrowsers

VARIABLES
  build,              \* which build of the handler runs
  stateFile,          \* content of linkedin_state.json
  isProduction,       \* NODE_ENV === 'production' || NETLIFY === 'true'
  credentials,        \* LINKEDIN_EMAIL and LINKEDIN_PASSWORD are both set
  localPlaywright,    \* require('playwright') succeeds
  cachedContext,      \* module variable: 0 (null) or a context id
  savedStorageState,  \* module variable: "undefined" or the parsed value
  fileReads,          \* number of fs.readFileSync calls so far
  browsers,           \* launched browsers and the context each one owns
  served,             \* number of POST requests received so far
  req,                \* the POST invocations, one slot per invocation in flight
  sv                  \* the saveLinkedInState run (saveState.ts)

handlerVars == <<build, stateFile, isProduction, credentials, localPlaywright,
                 cachedContext, savedStorageState, fileReads, browsers, served,
                 req>>
vars == <<build, stateFile, isProduction, credentials, localPlaywright,
          cachedContext, savedStorageState, fileReads, browsers, served,
          req, sv>>
envVars == <<build, stateFile, isProduction, credentials, localPlaywright>>

\* ------------------------------------------------------------- loadStorageState
\* JavaScript truthiness of the values savedStorageState can hold
Truthy(v) == v \notin {"undefined", "null"}

\* JSON.parse(fs.readFileSync(filePath)) throws for an absent file and for
\* text that is not JSON
ParseThrows(content) == content \in {"missing", "garbage"}

\* the value JSON.parse returns
JSONparse(content) ==
  CASE content = "null"    -> "null"
    [] content = "live"    -> "liveSession"
    [] content = "expired" -> "expiredSession"

\* loadStorageState(): ret is the returned value, saved the new value of
\* savedStorageState, reads the number of readFileSync calls it made
loadStorageState ==
  IF Truthy(savedStorageState)
    THEN [ret |-> savedStorageState, saved |-> savedStorageState, reads |-> 0]
    ELSE IF ParseThrows(stateFile)
      THEN [ret |-> "undefined", saved |-> savedStorageState, reads |-> 1]
      ELSE [ret |-> JSONparse(stateFile), saved |-> JSONparse(stateFile),
            reads |-> 1]

\* -------------------------------------------------------------------- state
NoBrowser == [browser |-> "none", context |-> "none", loggedIn |-> FALSE,
              cachedBy |-> "none"]

\* the locals of one POST invocation; error is the message of the error a
\* failure path of getAuthenticatedContext is about to throw, as its pieces;
\* prev keeps the status and the context of
\* the invocation served before it
ReqInit == [pc |-> "idle", profile |-> Str(<<>>),
            storageStateObject |-> "undefined",
            probed |-> 0, browser |-> 0, context |-> 0, url |-> BLANK_URL,
            profileUrl |-> Str(<<>>), profileData |-> Str(<<>>),
            llmInput |-> Str(<<>>), status |-> 0, body |-> <<>>, log |-> <<>>,
            error |-> <<>>,
            prev |-> [status |-> 0, context |-> 0]]

\* the saveLinkedInState run: envEmail / envPassword are process.env's
\* LINKEDIN_EMAIL / LINKEDIN_PASSWORD, browser is the local of that name,
\* promise is the state of the promise saveLinkedInState() returned
SvInit == [pc |-> "off", envEmail |-> "undefined", envPassword |-> "undefined",
           browser |-> "undefined", url |-> BLANK_URL, reachedFeed |-> FALSE,
           fileWritten |-> FALSE, failure |-> "none", log |-> <<>>,
           promise |-> "pending"]

Init ==
  /\ build \in Builds
  /\ stateFile \in StateFiles
  /\ isProduction \in BOOLEAN
  /\ credentials \in BOOLEAN
  /\ localPlaywright \in BOOLEAN
  /\ cachedContext = 0
  /\ savedStorageState = "undefined"
  /\ fileReads = 0
  /\ browsers = [b \in BrowserIds |-> NoBrowser]
  /\ served = 0
  /\ req = [r \in Requests |-> ReqInit]
  /\ sv = SvInit

launched == Cardinality({b \in BrowserIds : browsers[b].browser # "none"})

\* no request is between its start and its response
Quiescent == \A r \in Requests : req[r].pc \in {"idle", "done"}

Log(r, events) == req[r].log \o events

\* ----------------------------------------------------------------- POST
\* the catch block of the scrape section: reset the cache, answer 400
\* `Scraping failed: ${error.message}.`; msg is error.message as its pieces
ScrapeErrorBody(msg) ==
  IF build = "route.ts"
    THEN <<"Scraping failed: ">> \o msg
            \o <<". The browser likely ran out of memory.">>
    ELSE <<"Scraping failed: ">> \o msg \o <<".">>

\* the catch block falling through to the completion call instead of returning
CaughtContinues(r, msg, events) ==
  [req EXCEPT ![r].pc = "llm", ![r].status = 400,
              ![r].body = ScrapeErrorBody(msg),
              ![r].log = Log(r, events)]

Caught(r, msg, events) ==
  [req EXCEPT ![r].pc = "done", ![r].status = 400,
              ![r].body = ScrapeErrorBody(msg),
              ![r].log = Log(r, events \o <<"respond">>)]

\* const { profile } = await request.json(); the branch on "linkedin.com"
POST(r, profile) ==
  LET fresh == [ReqInit EXCEPT !.profile = profile,
                   !.prev = [status |-> req[r].status,
                             context |-> req[r].context]]
  IN
  /\ req[r].pc \in {"idle", "done"}
  /\ \A q \in Requests : q < r => req[q].pc \notin {"idle", "done"}
  /\ served < MaxRequests
  /\ served' = served + 1
  /\ IF Includes(profile, NEEDLE_LINKEDIN)
       THEN req' = [req EXCEPT ![r] = [fresh EXCEPT !.pc = "getCtx"]]
       ELSE req' = [req EXCEPT ![r] = [fresh EXCEPT !.pc = "llm",
                                                    !.profileData = profile]]
  /\ UNCHANGED <<envVars, cachedContext, savedStorageState, fileReads,
                 browsers, sv>>

\* section 2 of getAuthenticatedContext, run with cachedContext = cc: choose
\* the storage state and the browser executable
Setup(r, cc, events) ==
  LET ld == IF isProduction
              THEN loadStorageState
              ELSE [ret |-> "undefined", saved |-> savedStorageState,
                    reads |-> 0]
  IN /\ savedStorageState' = ld.saved
     /\ fileReads' = fileReads + ld.reads
     /\ IF ~isProduction /\ ~localPlaywright
          THEN /\ cachedContext' = 0
               /\ req' = Caught(r, <<"Local environment setup failed.">>, events)
          ELSE /\ cachedContext' = cc
               /\ req' = [req EXCEPT ![r].pc = "launch",
                                     ![r].storageStateObject = ld.ret,
                                     ![r].log = Log(r, events)]

\* getAuthenticatedContext is entered: a cached context is probed, otherwise
\* the launch is set up
GetAuthenticatedContext(r) ==
  /\ req[r].pc = "getCtx"
  /\ IF cachedContext # 0
       THEN /\ req' = [req EXCEPT ![r].pc = "probe",
                                  ![r].probed = cachedContext,
                                  ![r].log = Log(r, <<"getContext">>)]
            /\ UNCHANGED <<cachedContext, savedStorageState, fileReads>>
       ELSE Setup(r, cachedContext, <<"getContext">>)
  /\ UNCHANGED <<envVars, browsers, served, sv>>

\* Probe with the cache reset on the success path too
ProbeDropsCache(r, outcome) ==
  /\ req[r].pc = "probe"
  /\ IF outcome = "ok"
       THEN /\ req' = [req EXCEPT ![r].pc = "scrape",
                                  ![r].context = cachedContext,
                                  ![r].log = Log(r, <<"reuse">>)]
            /\ cachedContext' = 0
            /\ UNCHANGED <<savedStorageState, fileReads>>
       ELSE Setup(r, 0, <<"stale">>)
  /\ UNCHANGED <<envVars, browsers, served, sv>>

\* Probe with the stale context left in the cache when the probe throws
ProbeKeepsStale(r, outcome) ==
  /\ req[r].pc = "probe"
  /\ IF outcome = "ok"
       THEN /\ req' = [req EXCEPT ![r].pc = "scrape",
                                  ![r].context = cachedContext,
                                  ![r].log = Log(r, <<"reuse">>)]
            /\ UNCHANGED <<cachedContext, savedStorageState, fileReads>>
       ELSE Setup(r, cachedContext, <<"stale">>)
  /\ UNCHANGED <<envVars, browsers, served, sv>>

\* the liveness probe ends: newPage / goto about:blank / close went through,
\* or one of them threw
Probe(r, outcome) ==
  /\ req[r].pc = "probe"
  /\ IF outcome = "ok"
       THEN /\ req' = [req EXCEPT ![r].pc = "scrape",
                                  ![r].context = cachedContext,
                                  ![r].log = Log(r, <<"reuse">>)]
            /\ UNCHANGED <<cachedContext, savedStorageState, fileReads>>
       ELSE Setup(r, 0, <<"stale">>)
  /\ UNCHANGED <<envVars, browsers, served, sv>>

\* section 3: browserExecutable.launch(launchOptions); it fails when the
\* instance cannot start another browser process
Launch(r, outcome) ==
  /\ req[r].pc = "launch"
  /\ IF outcome = "ok"
       THEN /\ launched < MaxBrowsers
            /\ browsers' = [browsers EXCEPT ![launched + 1].browser = "open"]
            /\ req' = [req EXCEPT ![r].pc = "newContext",
                                  ![r].browser = launched + 1,
                                  ![r].log = Log(r, <<"launch">>)]
            /\ UNCHANGED cachedContext
       ELSE /\ cachedContext' = 0
            /\ req' = Caught(r, <<"browserType.launch failed">>, <<>>)
            /\ UNCHANGED browsers
  /\ UNCHANGED <<envVars, savedStorageState, fileReads, served, sv>>

\* a context created with storageState holds the session stored in it
SessionOf(storageStateObject) == storageStateObject = "liveSession"

\* const context = await browser.newContext(contextOptions)
NewContext(r, outcome) ==
  /\ req[r].pc = "newContext"
  /\ IF outcome = "ok"
       THEN /\ browsers' = [browsers EXCEPT
                 ![req[r].browser].context = "open",
                 ![req[r].browser].loggedIn =
                     SessionOf(req[r].storageStateObject)]
            /\ req' = [req EXCEPT ![r].pc = "newPage",
                                  ![r].log = Log(r, <<"newContext">>)]
            /\ UNCHANGED cachedContext
       ELSE /\ cachedContext' = 0
            /\ req' = Caught(r, <<"browser.newContext failed">>, <<>>)
            /\ UNCHANGED browsers
  /\ UNCHANGED <<envVars, savedStorageState, fileReads, served, sv>>

\* const page = await context.newPage(); await context.route(...): when one
\* of them throws the context and the browser stay as they are
NewPage(r, outcome) ==
  /\ req[r].pc = "newPage"
  /\ IF outcome = "ok"
       THEN /\ req' = [req EXCEPT ![r].pc = "sessionTest",
                                  ![r].url = BLANK_URL,
                                  ![r].log = Log(r, <<"newPage">>)]
            /\ UNCHANGED cachedContext
       ELSE /\ cachedContext' = 0
            /\ req' = Caught(r, <<"context.newPage failed">>, <<>>)
  /\ UNCHANGED <<envVars, savedStorageState, fileReads, browsers, served, sv>>

\* where the page is after page.goto(feed) of part_001 (the navigation error
\* is swallowed); route.ts does not navigate
TestURLs(b) ==
  IF build = "route.ts" THEN {BLANK_URL}
  ELSE IF browsers[b].loggedIn THEN {FEED_URL, BLANK_URL}
  ELSE {LOGIN_REDIRECT_URL, LOGIN_URL, BLANK_URL}

\* the condition under which section 4 caches the context without logging in
SessionAccepted(storageStateObject, url) ==
  IF build = "route.ts"
    THEN Truthy(storageStateObject)
    ELSE Includes(url, NEEDLE_FEED)

\* section 4 up to the credential check: the session is accepted and the
\* page is about to be closed, or the credentials are missing and the context
\* is about to be closed, or the login form is next
SessionTest(r, url) ==
  LET b == req[r].browser IN
  /\ req[r].pc = "sessionTest"
  /\ url \in TestURLs(b)
  /\ IF SessionAccepted(req[r].storageStateObject, url)
       THEN req' = [req EXCEPT ![r].pc = "closePageState", ![r].url = url,
                               ![r].log = Log(r, <<"accept">>)]
       ELSE IF ~credentials
         THEN req' = [req EXCEPT ![r].pc = "closeContext", ![r].url = url,
                          ![r].error = <<"Missing LinkedIn credentials.">>,
                          ![r].log = Log(r, <<"noCredentials">>)]
         ELSE req' = [req EXCEPT ![r].pc = "login", ![r].url = url]
  /\ UNCHANGED <<envVars, cachedContext, savedStorageState, fileReads,
                 browsers, served, sv>>

\* goto the login page unless already there, fill both fields, click submit
Login(r, outcome) ==
  /\ req[r].pc = "login"
  /\ IF outcome = "submitted"
       THEN /\ req' = [req EXCEPT ![r].pc = "loginCheck",
                          ![r].url = IF Includes(req[r].url, NEEDLE_LOGIN)
                                       THEN req[r].url ELSE LOGIN_URL,
                          ![r].log = Log(r, <<"login">>)]
            /\ UNCHANGED cachedContext
       ELSE /\ cachedContext' = 0
            /\ req' = Caught(r, <<"page.fill: Timeout exceeded">>, <<>>)
  /\ UNCHANGED <<envVars, savedStorageState, fileReads, browsers, served, sv>>

\* the text of a URL as it appears inside a message
UrlText(url) ==
  CASE url = FEED_URL -> "https://www.linkedin.com/feed/"
    [] url = LOGIN_URL -> "https://www.linkedin.com/login"
    [] url = LOGIN_REDIRECT_URL ->
         "https://www.linkedin.com/uas/login?session_redirect=%2Ffeed%2F"
    [] url = CHECKPOINT_URL -> "https://www.linkedin.com/checkpoint/challenge"
    [] url = BLANK_URL -> "about:blank"

\* `Login failed: Checkpoint detected at ${currentUrl}. Check credentials or
\* 'linkedin_state.json'.`
CheckpointMessage(currentUrl) ==
  <<"Login failed: Checkpoint detected at ", UrlText(currentUrl),
    ". Check credentials or 'linkedin_state.json'.">>

\* where the page can be when both waits have timed out: on a checkpoint
\* page, or still where the form was submitted
StuckURLs(r) == {CHECKPOINT_URL, req[r].url}

\* waitForURL(feed), else waitForSelector(feed link), else the checkpoint
\* branch up to its context.close(); currentUrl is what page.url() returns
LoginCheck(r, outcome, currentUrl) ==
  LET b == req[r].browser IN
  /\ req[r].pc = "loginCheck"
  /\ IF outcome \in {"url", "element"}
       THEN /\ currentUrl = IF outcome = "url" THEN FEED_URL ELSE req[r].url
            /\ browsers' = [browsers EXCEPT ![b].loggedIn = TRUE]
            /\ req' = [req EXCEPT ![r].pc = "closePageLogin",
                                  ![r].url = currentUrl,
                                  ![r].log = Log(r, <<"loggedIn">>)]
       ELSE /\ currentUrl \in StuckURLs(r)
            /\ req' = [req EXCEPT ![r].pc = "closeContext",
                          ![r].url = currentUrl,
                          ![r].error = CheckpointMessage(currentUrl),
                          ![r].log = Log(r, <<"checkpoint">>)]
            /\ UNCHANGED browsers
  /\ UNCHANGED <<envVars, cachedContext, savedStorageState, fileReads,
                 served, sv>>

\* await page.close(); cachedContext = context; return context; after the
\* session was accepted and after the login went through; a rejected close
\* is caught by POST and nothing has been closed
ClosePage(r, outcome) ==
  LET b == req[r].browser IN
  /\ req[r].pc \in {"closePageState", "closePageLogin"}
  /\ IF outcome = "ok"
       THEN /\ cachedContext' = b
            /\ browsers' = [browsers EXCEPT ![b].cachedBy =
                               IF req[r].pc = "closePageLogin"
                                 THEN "login" ELSE "state"]
            /\ req' = [req EXCEPT ![r].pc = "scrape", ![r].context = b,
                                  ![r].log = Log(r, <<"page.close">>)]
       ELSE /\ cachedContext' = 0
            /\ req' = Caught(r, <<"page.close: Target closed">>, <<>>)
            /\ UNCHANGED browsers
  /\ UNCHANGED <<envVars, savedStorageState, fileReads, served, sv>>

\* await context.close() on a failure path; when it rejects browser.close()
\* is never called and POST catches the rejection
CloseContext(r, outcome) ==
  LET b == req[r].browser IN
  /\ req[r].pc = "closeContext"
  /\ IF outcome = "ok"
       THEN /\ browsers' = [browsers EXCEPT ![b].context = "closed"]
            /\ req' = [req EXCEPT ![r].pc = "closeBrowser",
                                  ![r].log = Log(r, <<"context.close">>)]
            /\ UNCHANGED cachedContext
       ELSE /\ cachedContext' = 0
            /\ req' = Caught(r, <<"context.close: Target closed">>, <<>>)
            /\ UNCHANGED browsers
  /\ UNCHANGED <<envVars, savedStorageState, fileReads, served, sv>>

\* await browser.close(); throw new Error(...): POST catches the error the
\* failure path prepared, or the rejection of the close
CloseBrowser(r, outcome) ==
  LET b == req[r].browser IN
  /\ req[r].pc = "closeBrowser"
  /\ cachedContext' = 0
  /\ IF outcome = "ok"
       THEN /\ browsers' = [browsers EXCEPT ![b].browser = "closed"]
            /\ req' = Caught(r, req[r].error, <<"browser.close", "throw">>)
       ELSE /\ req' = Caught(r, <<"browser.close: Target closed">>, <<>>)
            /\ UNCHANGED browsers
  /\ UNCHANGED <<envVars, savedStorageState, fileReads, served, sv>>

\* error.message of what the scrape block throws after the context was
\* obtained: the TypeError of null.newPage(), or the library's timeout
ScrapeError(context) ==
  IF context = 0
    THEN <<"Cannot read properties of null (reading 'newPage')">>
    ELSE <<"Timeout exceeded">>

\* Scrape with the cache left as it is when the scrape throws
ScrapeKeepsCache(r, outcome, data) ==
  /\ req[r].pc = "scrape"
  /\ IF outcome = "ok"
       THEN /\ req[r].context # 0
            /\ req' = [req EXCEPT ![r].pc = "llm",
                                  ![r].profileData = data,
                                  ![r].log = Log(r, <<"scrape">>)]
       ELSE /\ req' = Caught(r, ScrapeError(req[r].context), <<>>)
  /\ UNCHANGED <<envVars, cachedContext, savedStorageState, fileReads,
                 browsers, served, sv>>

\* if (!profileUrl.startsWith("http")) profileUrl = "https://" + profileUrl
ProfileUrl(profile) ==
  IF StartsWith(profile, NEEDLE_HTTP) THEN profile ELSE Concat(HTTPS_PREFIX, profile)

\* context.newPage(), page.goto(profileUrl), extraction, page.close(); a null
\* context makes newPage throw
Scrape(r, outcome, data) ==
  /\ req[r].pc = "scrape"
  /\ IF outcome = "ok"
       THEN /\ req[r].context # 0
            /\ req' = [req EXCEPT ![r].pc = "llm",
                                  ![r].profileUrl = ProfileUrl(req[r].profile),
                                  ![r].profileData = data,
                                  ![r].log = Log(r, <<"scrape">>)]
            /\ UNCHANGED cachedContext
       ELSE /\ cachedContext' = 0
            /\ req' = Caught(r, ScrapeError(req[r].context), <<>>)
  /\ UNCHANGED <<envVars, savedStorageState, fileReads, browsers, served, sv>>

\* the whole profile data, not cut
UserContentWhole(profileData) == profileData

\* the user message content sent to the completion endpoint
UserContent(profileData) == Substring(profileData, SubstringLimit)

\* section 6: the fetch to the completion endpoint is sent
CallLLM(r) ==
  /\ req[r].pc = "llm"
  /\ req' = [req EXCEPT ![r].pc = "awaitLLM",
                        ![r].llmInput = UserContent(req[r].profileData),
                        ![r].log = Log(r, <<"llm">>)]
  /\ UNCHANGED <<envVars, cachedContext, savedStorageState, fileReads,
                 browsers, served, sv>>

\* the endpoint answers ok, answers with an error status, or fetch rejects
LLMAnswer(r, outcome) ==
  /\ req[r].pc = "awaitLLM"
  /\ IF outcome = "ok"
       THEN req' = [req EXCEPT ![r].pc = "done", ![r].status = 200,
                               ![r].body = <<"roast">>,
                               ![r].log = Log(r, <<"llmOk", "respond">>)]
       ELSE req' = [req EXCEPT ![r].pc = "done", ![r].status = 500,
                               ![r].body = <<"Failed to generate roast.">>,
                               ![r].log = Log(r, <<"respond">>)]
  /\ UNCHANGED <<envVars, cachedContext, savedStorageState, fileReads,
                 browsers, served, sv>>

Next ==
  \/ \E r \in Requests, p \in Profiles : Quiescent /\ POST(r, p)
  \/ \E r \in Requests : GetAuthenticatedContext(r)
  \/ \E r \in Requests, o \in {"ok", "throw"} : Probe(r, o)
  \/ \E r \in Requests, o \in {"ok", "throw"} : Launch(r, o)
  \/ \E r \in Requests, o \in {"ok", "throw"} : NewContext(r, o)
  \/ \E r \in Requests, o \in {"ok", "throw"} : NewPage(r, o)
  \/ \E r \in Requests, u \in {FEED_URL, BLANK_URL, LOGIN_URL, LOGIN_REDIRECT_URL} :
        SessionTest(r, u)
  \/ \E r \in Requests, o \in {"submitted", "throw"} : Login(r, o)
  \/ \E r \in Requests, o \in {"url", "element", "checkpoint"},
        u \in {FEED_URL, LOGIN_URL, LOGIN_REDIRECT_URL, CHECKPOINT_URL} :
        LoginCheck(r, o, u)
  \/ \E r \in Requests, o \in {"ok", "reject"} : ClosePage(r, o)
  \/ \E r \in Requests, o \in {"ok", "reject"} : CloseContext(r, o)
  \/ \E r \in Requests, o \in {"ok", "reject"} : CloseBrowser(r, o)
  \/ \E r \in Requests, o \in {"ok", "throw"}, d \in ScrapedData : Scrape(r, o, d)
  \/ \E r \in Requests : CallLLM(r)
  \/ \E r \in Requests, o \in {"ok", "notOk", "reject"} : LLMAnswer(r, o)

Spec == Init /\ [][Next]_vars

\* invocations interleave at their awaits: a POST is received while others
\* are in flight
NextConcurrent ==
  \/ \E r \in Requests, p \in Profiles :
        served < MaxInterleaved /\ POST(r, p)
  \/ \E r \in Requests : GetAuthenticatedContext(r)
  \/ \E r \in Requests, o \in {"ok", "throw"} : Probe(r, o)
  \/ \E r \in Requests, o \in {"ok", "throw"} : Launch(r, o)
  \/ \E r \in Requests, o \in {"ok", "throw"} : NewContext(r, o)
  \/ \E r \in Requests, o \in {"ok", "throw"} : NewPage(r, o)
  \/ \E r \in Requests, u \in {FEED_URL, BLANK_URL, LOGIN_URL, LOGIN_REDIRECT_URL} :
        SessionTest(r, u)
  \/ \E r \in Requests, o \in {"submitted", "throw"} : Login(r, o)
  \/ \E r \in Requests, o \in {"url", "element", "checkpoint"},
        u \in {FEED_URL, LOGIN_URL, LOGIN_REDIRECT_URL, CHECKPOINT_URL} :
        LoginCheck(r, o, u)
  \/ \E r \in Requests, o \in {"ok", "reject"} : ClosePage(r, o)
  \/ \E r \in Requests, o \in {"ok", "reject"} : CloseContext(r, o)
  \/ \E r \in Requests, o \in {"ok", "reject"} : CloseBrowser(r, o)
  \/ \E r \in Requests, o \in {"ok", "throw"}, d \in ScrapedData : Scrape(r, o, d)
  \/ \E r \in Requests : CallLLM(r)
  \/ \E r \in Requests, o \in {"ok", "notOk", "reject"} : LLMAnswer(r, o)

SpecConcurrent == Init /\ [][NextConcurrent]_vars

\* ------------------------------------------------------- saveLinkedInState
\* "challenge"
NEEDLE_CHALLENGE ==
  Str(<<"c","h","a","l","l","e","n","g","e">>)

\* values of LINKEDIN_EMAIL / LINKEDIN_PASSWORD in the environment
EnvEmails == {"undefined", "", "me@example.com", "YOUR_EMAIL_HERE"}
EnvPasswords == {"undefined", "secret", "YOUR_PASSWORD_HERE"}

\* x || fallback for strings
OrElse(x, fallback) == IF x \in {"undefined", ""} THEN fallback ELSE x

EMAIL == OrElse(sv.envEmail, "your.actual.email@example.com")
PASSWORD == OrElse(sv.envPassword, "Your$Secret&Password123")

InitSave ==
  /\ build = "route.ts"
  /\ stateFile = "missing"
  /\ isProduction = FALSE
  /\ credentials = FALSE
  /\ localPlaywright = TRUE
  /\ cachedContext = 0
  /\ savedStorageState = "undefined"
  /\ fileReads = 0
  /\ browsers = [b \in BrowserIds |-> NoBrowser]
  /\ served = 0
  /\ req = [r \in Requests |-> ReqInit]
  /\ \E e \in EnvEmails, pw \in EnvPasswords :
        sv = [SvInit EXCEPT !.pc = "start", !.envEmail = e, !.envPassword = pw]

\* the placeholder check that precedes the try block
SaveStart ==
  /\ sv.pc = "start"
  /\ IF EMAIL = "YOUR_EMAIL_HERE" \/ PASSWORD = "YOUR_PASSWORD_HERE"
       THEN sv' = [sv EXCEPT !.pc = "finished", !.failure = "placeholder",
                             !.promise = "resolved"]
       ELSE sv' = [sv EXCEPT !.pc = "launch"]
  /\ UNCHANGED handlerVars

\* the outer catch: log the error, go on to the finally block
SaveCaught ==
  [sv EXCEPT !.pc = "finally", !.failure = "unexpected",
             !.log = sv.log \o <<"throw">>]

\* chromium.launch({ headless: false, slowMo: 100 })
SaveLaunch(outcome) ==
  /\ sv.pc = "launch"
  /\ IF outcome = "ok"
       THEN sv' = [sv EXCEPT !.pc = "newContext", !.browser = "open",
                             !.log = sv.log \o <<"launch">>]
       ELSE sv' = SaveCaught
  /\ UNCHANGED handlerVars

\* browser.newContext(), context.newPage()
SaveNewContext(outcome) ==
  /\ sv.pc = "newContext"
  /\ IF outcome = "ok"
       THEN sv' = [sv EXCEPT !.pc = "goto", !.log = sv.log \o <<"newPage">>]
       ELSE sv' = SaveCaught
  /\ UNCHANGED handlerVars

\* page.goto(LINKEDIN_LOGIN_URL)
SaveGoto(outcome) ==
  /\ sv.pc = "goto"
  /\ IF outcome = "ok"
       THEN sv' = [sv EXCEPT !.pc = "submit", !.url = LOGIN_URL,
                             !.log = sv.log \o <<"goto">>]
       ELSE sv' = SaveCaught
  /\ UNCHANGED handlerVars

\* fill session_key, fill session_password, click submit
SaveSubmit(outcome) ==
  /\ sv.pc = "submit"
  /\ IF outcome = "ok"
       THEN sv' = [sv EXCEPT !.pc = "waitForURL",
                             !.log = sv.log \o <<"submit">>]
       ELSE sv' = SaveCaught
  /\ UNCHANGED handlerVars

\* the timeout handler without its return: the run goes on to save the state
SaveWaitNoReturn(outcome, url) ==
  /\ sv.pc = "waitForURL"
  /\ IF outcome = "feed"
       THEN /\ url = FEED_URL
            /\ sv' = [sv EXCEPT !.pc = "storageState", !.url = url,
                                !.reachedFeed = TRUE,
                                !.log = sv.log \o <<"feed">>]
       ELSE /\ url # FEED_URL
            /\ sv' = [sv EXCEPT !.pc = "storageState", !.url = url,
                                !.log = sv.log \o <<"timeout">>]
  /\ UNCHANGED handlerVars

\* page.waitForURL(LINKEDIN_FEED_URL, 60 s): the page reaches the feed, or the
\* wait times out with the page at url
SaveWaitForURL(outcome, url) ==
  /\ sv.pc = "waitForURL"
  /\ IF outcome = "feed"
       THEN /\ url = FEED_URL
            /\ sv' = [sv EXCEPT !.pc = "storageState", !.url = url,
                                !.reachedFeed = TRUE,
                                !.log = sv.log \o <<"feed">>]
       ELSE /\ url # FEED_URL
            /\ sv' = [sv EXCEPT !.pc = "finally", !.url = url,
                         !.failure = IF Includes(url, NEEDLE_CHALLENGE)
                                       THEN "challenge" ELSE "timeout",
                         !.log = sv.log \o <<"timeout">>]
  /\ UNCHANGED handlerVars

\* context.storageState({ path: STATE_FILE_PATH })
SaveStorageState(outcome) ==
  /\ sv.pc = "storageState"
  /\ IF outcome = "ok"
       THEN sv' = [sv EXCEPT !.pc = "finally", !.fileWritten = TRUE,
                             !.log = sv.log \o <<"write">>]
       ELSE sv' = SaveCaught
  /\ UNCHANGED handlerVars

\* finally: if (browser !== undefined) await browser.close(), then the
\* "Browser closed." line; a rejected close leaves the browser open, skips
\* that line and rejects the promise of saveLinkedInState()
SaveFinally(outcome) ==
  /\ sv.pc = "finally"
  /\ IF outcome = "ok"
       THEN sv' = [sv EXCEPT !.pc = "finished",
                             !.browser = IF sv.browser # "undefined"
                                           THEN "closed" ELSE sv.browser,
                             !.promise = "resolved",
                             !.log = sv.log \o <<"finally">>]
       ELSE /\ sv.browser # "undefined"
            /\ sv' = [sv EXCEPT !.pc = "finished", !.promise = "rejected"]
  /\ UNCHANGED handlerVars

NextSave ==
  \/ SaveStart
  \/ \E o \in {"ok", "throw"} : SaveLaunch(o)
  \/ \E o \in {"ok", "throw"} : SaveNewContext(o)
  \/ \E o \in {"ok", "throw"} : SaveGoto(o)
  \/ \E o \in {"ok", "throw"} : SaveSubmit(o)
  \/ \E o \in {"feed", "timeout"}, u \in {FEED_URL, LOGIN_URL, CHECKPOINT_URL} :
        SaveWaitForURL(o, u)
  \/ \E o \in {"ok", "throw"} : SaveStorageState(o)
  \/ \E o \in {"ok", "reject"} : SaveFinally(o)

SpecSave == InitSave /\ [][NextSave]_vars

\* ------------------------------------------------------------------ claims
\* the event e is in the log
Has(log, e) == \E i \in DOMAIN log : log[i] = e

\* the index of the first e in log, 0 when there is none
Pos(log, e) ==
  IF Has(log, e) THEN CHOOSE i \in DOMAIN log :
                         log[i] = e /\ \A j \in 1..(i - 1) : log[j] # e
  ELSE 0

\* C1: a successful liveness probe returns exactly the context that was
\* cached, launches no browser, creates no context and leaves cachedContext
\* unchanged; after a successful LinkedIn POST the next POST therefore scrapes
\* with the same context.
C1_WarmReuse ==
  [][\A r \in Requests :
       (req[r].pc = "probe" /\ req'[r].pc = "scrape") =>
          /\ cachedContext # 0
          /\ req'[r].context = cachedContext
          /\ req'[r].context = req[r].probed
          /\ cachedContext' = cachedContext
          /\ browsers' = browsers
          /\ req'[r].browser = 0
          /\ (req[r].prev.status \in {200, 500} /\ req[r].prev.context # 0
                => req'[r].context = req[r].prev.context)]_vars

\* a request about to scrape with the context the previous, successful
\* LinkedIn request used
C1_Witness ==
  \E r \in Requests :
     /\ req[r].pc = "scrape"
     /\ Has(req[r].log, "reuse")
     /\ req[r].context # 0
     /\ req[r].context = req[r].prev.context
     /\ req[r].prev.status = 200
     /\ cachedContext = req[r].context

\* C2: when the probe of a cached context throws, cachedContext is set to
\* null and a launch follows; if getAuthenticatedContext then returns, the
\* returned context is the one created by this call, not the stale one, and
\* cachedContext refers to it.
C2_StaleRecovery ==
  [][\A r \in Requests :
       /\ (req[r].pc = "probe" /\ req'[r].pc \notin {"probe", "scrape"}) =>
             /\ cachedContext' = 0
             /\ req'[r].pc = "launch"
             /\ req'[r].browser = 0
       /\ (/\ Has(req[r].log, "stale")
           /\ req[r].pc \notin {"scrape", "done"}
           /\ req'[r].pc = "scrape") =>
             /\ req[r].browser # 0
             /\ browsers[req[r].browser].browser = "open"
             /\ browsers'[req[r].browser].context = "open"
             /\ req'[r].context = req[r].browser
             /\ req'[r].context # req[r].probed
             /\ cachedContext' = req'[r].context]_vars

\* a request about to scrape with a context it created after the probe of the
\* cached one threw
C2_Witness ==
  \E r \in Requests :
     /\ req[r].pc = "scrape"
     /\ Has(req[r].log, "stale")
     /\ req[r].probed # 0
     /\ req[r].context # 0
     /\ req[r].context # req[r].probed
     /\ cachedContext = req[r].context

\* C3: whenever cachedContext is non-null, the context it refers to has a
\* logged-in LinkedIn session, whatever linkedin_state.json contains.
C3_CacheAuthenticated ==
  cachedContext # 0 => browsers[cachedContext].loggedIn

\* C4: a context created from a saved state that holds no logged-in session
\* (none loaded, or an expired one) is returned by getAuthenticatedContext
\* only after the credential login was performed.
C4_FallbackLogin ==
  \A r \in Requests :
     (/\ req[r].pc = "scrape"
      /\ req[r].browser # 0
      /\ req[r].context = req[r].browser
      /\ ~SessionOf(req[r].storageStateObject))
        => Has(req[r].log, "login")

\* C5: on both failure paths of the credential login (credentials missing,
\* checkpoint) the new context is closed, then the new browser, the error is
\* thrown, cachedContext is null afterwards, and POST answers 400 without
\* calling the completion endpoint.
C5_LoginFailure ==
  \A r \in Requests :
     (/\ req[r].pc = "done"
      /\ \/ Has(req[r].log, "noCredentials")
         \/ Has(req[r].log, "checkpoint"))
        => /\ req[r].status = 400
           /\ req[r].browser # 0
           /\ browsers[req[r].browser].context = "closed"
           /\ browsers[req[r].browser].browser = "closed"
           /\ 0 < Pos(req[r].log, "context.close")
           /\ Pos(req[r].log, "context.close") < Pos(req[r].log, "browser.close")
           /\ Pos(req[r].log, "browser.close") < Pos(req[r].log, "throw")
           /\ Pos(req[r].log, "throw") < Pos(req[r].log, "respond")
           /\ req[r].body = ScrapeErrorBody(req[r].error)
           /\ cachedContext = 0
           /\ req[r].context = 0
           /\ ~Has(req[r].log, "llm")
           /\ req[r].llmInput = Str(<<>>)

\* C6: for a profile containing "linkedin.com" the steps happen in the order
\* obtain the context, scrape, call the completion endpoint, respond; the
\* endpoint is called only after a successful scrape, with the scraped data,
\* and a 200 response is sent only after the endpoint answered ok.
C6_StepOrder ==
  \A r \in Requests :
     (req[r].pc # "idle" /\ Includes(req[r].profile, NEEDLE_LINKEDIN))
       => /\ Has(req[r].log, "scrape") =>
               /\ 0 < Pos(req[r].log, "getContext")
               /\ Pos(req[r].log, "getContext") < Pos(req[r].log, "scrape")
               /\ req[r].context # 0
               /\ req[r].profileData \in ScrapedData
               /\ req[r].profileUrl = ProfileUrl(req[r].profile)
          /\ Has(req[r].log, "llm") =>
               /\ 0 < Pos(req[r].log, "scrape")
               /\ Pos(req[r].log, "scrape") < Pos(req[r].log, "llm")
               /\ req[r].llmInput =
                     Substring(req[r].profileData, SubstringLimit)
          /\ req[r].pc \in {"llm", "awaitLLM"} => Has(req[r].log, "scrape")
          /\ req[r].status = 200 =>
               /\ 0 < Pos(req[r].log, "llm")
               /\ Pos(req[r].log, "llm") < Pos(req[r].log, "llmOk")
               /\ Pos(req[r].log, "llmOk") < Pos(req[r].log, "respond")
               /\ req[r].body = <<"roast">>
          /\ Has(req[r].log, "respond") =>
               /\ req[r].pc = "done"
               /\ Pos(req[r].log, "respond") = Len(req[r].log)

\* a LinkedIn request answered 200 after all four steps
C6_Witness ==
  \E r \in Requests :
     /\ req[r].pc = "done"
     /\ req[r].status = 200
     /\ Includes(req[r].profile, NEEDLE_LINKEDIN)
     /\ Has(req[r].log, "scrape")
     /\ Has(req[r].log, "llmOk")

\* C7: saveLinkedInState writes the state file only after the page reached
\* the feed URL; after a timeout of that wait (challenge or not), after any
\* step threw, and after the placeholder check returned, no file is written;
\* and a browser that was launched is closed when the function has finished.
C7_Bootstrapper ==
  /\ sv.fileWritten =>
        /\ sv.reachedFeed
        /\ sv.url = FEED_URL
        /\ 0 < Pos(sv.log, "feed")
        /\ Pos(sv.log, "feed") < Pos(sv.log, "write")
  /\ sv.failure # "none" => ~sv.fileWritten
  /\ (Has(sv.log, "timeout") \/ Has(sv.log, "throw")) =>
        /\ ~sv.fileWritten
        /\ sv.failure # "none"
  /\ sv.pc = "finished" =>
        /\ sv.browser # "open"
        /\ Has(sv.log, "launch") => sv.browser = "closed"

\* C7 as amended: the file is written only after the page reached the feed
\* URL; after a timeout of that wait, after any step threw, and after the
\* placeholder check returned, no file is written; and on every path on which
\* a browser was launched the run ends with browser.close(): the browser is
\* closed when the promise of saveLinkedInState resolves, and when the close
\* rejects the browser stays open and that promise rejects.
C7_BootstrapperAmended ==
  /\ sv.fileWritten =>
        /\ sv.reachedFeed
        /\ sv.url = FEED_URL
        /\ 0 < Pos(sv.log, "feed")
        /\ Pos(sv.log, "feed") < Pos(sv.log, "write")
  /\ sv.failure # "none" => ~sv.fileWritten
  /\ (Has(sv.log, "timeout") \/ Has(sv.log, "throw")) =>
        /\ ~sv.fileWritten
        /\ sv.failure # "none"
  /\ sv.pc = "finished" <=> sv.promise # "pending"
  /\ sv.promise = "resolved" =>
        /\ sv.browser # "open"
        /\ Has(sv.log, "launch") => sv.browser = "closed"
  /\ sv.promise = "rejected" =>
        /\ sv.browser = "open"
        /\ Has(sv.log, "launch")
        /\ ~Has(sv.log, "finally")

\* a finished run that reached the feed, wrote the file and closed the browser
C7_Witness ==
  /\ sv.pc = "finished"
  /\ sv.promise = "resolved"
  /\ sv.fileWritten
  /\ sv.reachedFeed
  /\ sv.browser = "closed"

\* C8: when a step of the scrape block throws, POST sets cachedContext to
\* null, answers 400 with a message that starts with "Scraping failed:" and
\* does not call the completion endpoint; the next LinkedIn POST does not
\* reuse the old context: it goes to the launch, and a context it scrapes with
\* belongs to the browser it launched itself.
C8_ScrapeFailure ==
  \A r \in Requests :
     /\ (req[r].pc = "done" /\ Has(req[r].log, "getContext")
                            /\ ~Has(req[r].log, "scrape")) =>
           req[r].status = 400
     /\ (req[r].pc = "done" /\ req[r].status = 400) =>
           /\ cachedContext = 0
           /\ Len(req[r].body) >= 1
           /\ req[r].body[1] = "Scraping failed: "
           /\ ~Has(req[r].log, "llm")
           /\ req[r].llmInput = Str(<<>>)
     /\ (/\ req[r].prev.status = 400
         /\ Has(req[r].log, "getContext")) =>
           /\ req[r].probed = 0
           /\ ~Has(req[r].log, "reuse")
           /\ \/ req[r].pc = "launch"
              \/ Has(req[r].log, "launch")
              \/ /\ req[r].pc = "done"
                 /\ req[r].body[2] \in {"Local environment setup failed.",
                                        "browserType.launch failed"}
           /\ req[r].context # 0 =>
                 /\ req[r].context = req[r].browser
                 /\ Has(req[r].log, "launch")
                 /\ req[r].context # req[r].prev.context

\* a LinkedIn request about to scrape with a context of its own browser, after
\* the request before it failed while scraping with another context
C8_Witness ==
  \E r \in Requests :
     /\ req[r].prev.status = 400
     /\ req[r].prev.context # 0
     /\ req[r].pc = "scrape"
     /\ req[r].context # 0
     /\ req[r].context # req[r].prev.context
     /\ cachedContext = req[r].context

\* C9: linkedin_state.json is read at most once per runtime instance.
C9_ReadOnce ==
  fileReads <= 1

\* what C10 says of one invocation in the current state
C10_State(r) ==
  /\ req[r].profile \in {ProfileText, ProfileLong} =>
        ~Includes(req[r].profile, NEEDLE_LINKEDIN)
  /\ req[r].profile \in {ProfileBare, ProfileHttp} =>
        Includes(req[r].profile, NEEDLE_LINKEDIN)
  /\ (req[r].pc # "idle" /\ ~Includes(req[r].profile, NEEDLE_LINKEDIN)) =>
        /\ ~Has(req[r].log, "getContext")
        /\ req[r].pc # "getCtx"
        /\ req[r].probed = 0
        /\ req[r].browser = 0
        /\ req[r].context = 0
        /\ req[r].profileData = req[r].profile
        /\ req[r].status # 400
        /\ req[r].pc \in {"awaitLLM", "done"} =>
              /\ req[r].llmInput = Substring(req[r].profile, SubstringLimit)
              /\ Length(req[r].llmInput) =
                    Min(Length(req[r].profile), SubstringLimit)
  /\ (req[r].pc # "idle" /\ Includes(req[r].profile, NEEDLE_LINKEDIN)) =>
        \/ req[r].pc = "getCtx"
        \/ Has(req[r].log, "getContext")

\* C10: a profile that does not contain "linkedin.com" takes no step of the
\* browser path, leaves cachedContext, savedStorageState and the browsers as
\* they are, and its first SubstringLimit characters are what is sent to the
\* completion endpoint; a profile that contains it takes the browser path.
C10_Bypass ==
  [][\A r \in Requests :
       /\ C10_State(r)'
       /\ (/\ req'[r] # req[r]
           /\ ~Includes(req'[r].profile, NEEDLE_LINKEDIN)) =>
             UNCHANGED <<cachedContext, savedStorageState, fileReads,
                         browsers>>]_vars

\* a pasted text longer than the limit, answered after its first
\* SubstringLimit characters were sent
C10_Witness ==
  \E r \in Requests :
     /\ req[r].pc = "done"
     /\ req[r].status = 200
     /\ req[r].profile = ProfileLong
     /\ Length(req[r].profile) > SubstringLimit
     /\ Length(req[r].llmInput) = SubstringLimit
     /\ cachedContext # 0

\* the browsers that were launched and not closed
OpenBrowsers == {b \in BrowserIds : browsers[b].browser = "open"}

\* C11: in every quiescent state each launched browser is closed or owns the
\* context cachedContext refers to, so at most one launched browser is open.
C11_NoLeakedBrowser ==
  Quiescent =>
     /\ \A b \in OpenBrowsers : cachedContext = b
     /\ Cardinality(OpenBrowsers) <= 1

\* the step is the catch block of invocation r resetting a non-null cache
ResetBy(r) ==
  /\ req[r].pc # "done"
  /\ req'[r].pc = "done"
  /\ req'[r].status = 400
  /\ cachedContext # 0
  /\ cachedContext' = 0

\* C12: when invocations interleave at their awaits, getAuthenticatedContext
\* returns a non-null context, the one it probed or the one it created, and
\* the reset of cachedContext by an invocation whose scrape block failed
\* discards only the context that invocation itself used, never one that
\* another invocation installed or is about to return from its probe.
C12_NoInterference ==
  [][\A r \in Requests :
       /\ (req[r].pc # "scrape" /\ req'[r].pc = "scrape") =>
             /\ req'[r].context # 0
             /\ req[r].pc = "probe" => req'[r].context = req[r].probed
             /\ req[r].pc # "probe" => req'[r].context = req[r].browser
       /\ ResetBy(r) =>
             /\ cachedContext \in {req[r].context, req[r].probed,
                                   req[r].browser}
             /\ \A q \in Requests \ {r} :
                   /\ req[q].pc = "probe" => req[q].probed # cachedContext
                   /\ req[q].pc \in {"scrape", "llm", "awaitLLM"} =>
                         req[q].browser # cachedContext]_vars

====
